---- MODULE Spec2Model ----
(***************************************************************************)
(* A model of the AlphaVantage client (alphaVantageAPI/alphavantage.py):   *)
(* the configuration setters, the constructor, the dispatch operation      *)
(* data(), intraday(), the transport adapter _av_api_call, the response    *)
(* normalizer _to_dataframe and the exporter _save_df.                     *)
(***************************************************************************)
EXTENDS Integers, Sequences, FiniteSets, TLC

(***************************************************************************)
(* Bounds of the model.                                                    *)
(***************************************************************************)
\* top-level operations (data, intraday) one client performs
MaxCalls == 1
\* depth of the interpreter's call stack at which a RecursionError is raised
MaxDepth == 3

(***************************************************************************)
(* Python values.  A value carries its type tag t; s holds a string, n an  *)
(* integer (a float is held in tenths), l the items of a list or the parts *)
(* of a path.                                                              *)
(***************************************************************************)
PyNone      == [t |-> "none",  s |-> "", n |-> 0, l |-> <<>>]
PyStr(x)    == [t |-> "str",   s |-> x,  n |-> 0, l |-> <<>>]
PyInt(k)    == [t |-> "int",   s |-> "", n |-> k, l |-> <<>>]
PyBool(b)   == [t |-> "bool",  s |-> "", n |-> IF b THEN 1 ELSE 0, l |-> <<>>]
PyFloat(k)  == [t |-> "float", s |-> "", n |-> k, l |-> <<>>]
PyDict(x)   == [t |-> "dict",  s |-> x,  n |-> 0, l |-> <<>>]
PyList(xs)  == [t |-> "list",  s |-> "", n |-> 0, l |-> xs]
PyPath(ps)  == [t |-> "path",  s |-> "", n |-> 0, l |-> ps]
\* an attribute that was never assigned
Unset       == [t |-> "unset", s |-> "", n |-> 0, l |-> <<>>]

\* isinstance(v, int): bool is a subclass of int
IsInt(v) == v.t \in {"int", "bool"}
\* isinstance(v, bool)
IsBool(v) == v.t = "bool"
\* isinstance(v, str)
IsStr(v) == v.t = "str"

(***************************************************************************)
(* str.upper and str.lower on the strings of the model.                    *)
(***************************************************************************)
UpperTable ==
  [x \in {"aapl", "msft", "d", "sma", "foo", "bar", "apo", "mama", "macdext",
           "stoch", "stochf"} |->
     CASE x = "aapl" -> "AAPL" [] x = "msft" -> "MSFT" [] x = "d" -> "D"
       [] x = "sma" -> "SMA" [] x = "foo" -> "FOO" [] x = "bar" -> "BAR"
       [] x = "apo" -> "APO" [] x = "mama" -> "MAMA" [] x = "macdext" -> "MACDEXT"
       [] x = "stoch" -> "STOCH" [] x = "stochf" -> "STOCHF"]

LowerTable ==
  [x \in {"JSON", "CSV", "Full", "FULL", "COMPACT", "Csv", "PKL", "XLSX"} |->
     CASE x = "JSON" -> "json" [] x = "CSV" -> "csv" [] x = "Csv" -> "csv"
       [] x = "Full" -> "full" [] x = "FULL" -> "full"
       [] x = "COMPACT" -> "compact" [] x = "PKL" -> "pkl" [] x = "XLSX" -> "xlsx"]

\* str.upper: a string without lowercase letters is its own uppercase
upper(x) == IF x \in DOMAIN UpperTable THEN UpperTable[x] ELSE x
\* str.lower
lower(x) == IF x \in DOMAIN LowerTable THEN LowerTable[x] ELSE x

(***************************************************************************)
(* The function catalog (data/api.json, loaded by _load_api/_api_lists).   *)
(***************************************************************************)
api_datatype == <<"json", "csv">>
api_outputsize == <<"compact", "full">>
api_series_interval == <<"1min", "5min", "15min", "30min", "60min">>
\* alias -> function, for the series functions
api_function ==
  [a \in {"D", "I"} |->
     CASE a = "D" -> "TIME_SERIES_DAILY"
       [] a = "I" -> "TIME_SERIES_INTRADAY"]
api_indicator == {"SMA", "MAMA", "APO", "MACDEXT", "STOCH", "STOCHF"}
\* the moving-average-type codes
api_indicator_matype == <<0, 1, 2, 3, 4, 5, 6, 7, 8>>
\* the required and the optional parameters of the functions
api_parameters ==
  [f \in {"TIME_SERIES_DAILY", "TIME_SERIES_INTRADAY"} \cup api_indicator |->
     CASE f = "TIME_SERIES_DAILY" ->
            [required |-> <<"symbol">>, optional |-> <<"datatype", "outputsize">>]
       [] f = "TIME_SERIES_INTRADAY" ->
            [required |-> <<"symbol", "interval">>,
             optional |-> <<"datatype", "outputsize">>]
       [] f = "SMA" ->
            [required |-> <<"symbol", "interval", "time_period", "series_type">>,
             optional |-> <<>>]
       [] f = "MAMA" ->
            [required |-> <<"symbol", "interval", "series_type">>,
             optional |-> <<"fastlimit", "slowlimit">>]
       [] f = "APO" ->
            [required |-> <<"symbol", "interval", "series_type">>,
             optional |-> <<"fastperiod", "slowperiod", "matype">>]
       [] f = "MACDEXT" ->
            [required |-> <<"symbol", "interval", "series_type">>,
             optional |-> <<"fastperiod", "slowperiod", "signalperiod",
                            "fastmatype", "slowmatype", "signalmatype">>]
       [] f = "STOCH" ->
            [required |-> <<"symbol", "interval">>,
             optional |-> <<"fastkperiod", "slowkperiod", "slowdperiod",
                            "slowkmatype", "slowdmatype">>]
       [] f = "STOCHF" ->
            [required |-> <<"symbol", "interval">>,
             optional |-> <<"fastkperiod", "fastdperiod", "fastdmatype">>]]

Range(q) == {q[i] : i \in DOMAIN q}

(***************************************************************************)
(* Numbers.  float(), math.fabs() and int() give [exc, v]: the exception   *)
(* raised ("" when none) and the value.                                    *)
(***************************************************************************)
\* float('inf')
Inf == [t |-> "float", s |-> "inf", n |-> 0, l |-> <<>>]
IsNumber(v) == v.t \in {"int", "bool", "float"}
\* the value of a finite number, in tenths
tenths(v) == IF v.t = "float" THEN v.n ELSE 10 * v.n
\* the strings of the model float() accepts, with their values in tenths
FloatTable == [x \in {"0.5", "1.5"} |-> IF x = "0.5" THEN 5 ELSE 15]

\* float(v)
py_float(v) ==
  IF IsNumber(v) THEN [exc |-> "", v |-> IF v = Inf THEN Inf ELSE PyFloat(tenths(v))]
  ELSE IF IsStr(v)
  THEN IF v.s \in DOMAIN FloatTable
       THEN [exc |-> "", v |-> PyFloat(FloatTable[v.s])]
       ELSE [exc |-> "ValueError", v |-> PyNone]
  ELSE [exc |-> "TypeError", v |-> PyNone]

\* math.fabs(v)
fabs(v) ==
  IF IsNumber(v)
  THEN [exc |-> "",
        v |-> IF v = Inf THEN Inf
              ELSE PyFloat(IF tenths(v) < 0 THEN -tenths(v) ELSE tenths(v))]
  ELSE [exc |-> "TypeError", v |-> PyNone]

\* int(v) of a float that is not negative: the fraction is cut off
py_int(v) ==
  IF v = Inf THEN [exc |-> "OverflowError", v |-> PyNone]
  ELSE [exc |-> "", v |-> PyInt(v.n \div 10)]

(***************************************************************************)
(* The file system: the set of the directories that exist.  A path is the  *)
(* sequence of its parts, as pathlib.Path.parts gives them.                *)
(***************************************************************************)
homedir == <<"/", "home", "user">>

\* Path(value).parts for the path strings of the model
PathParts ==
  [x \in {"~/av_data", "/srv/out", "~"} |->
     CASE x = "~/av_data" -> <<"~", "av_data">>
       [] x = "/srv/out" -> <<"/", "srv", "out">>
       [] x = "~" -> <<"~">>]

Prefixes(p) == {SubSeq(p, 1, k) : k \in 1..Len(p)}

\* Path.mkdir(parents = True)
mkdir(f, p) == f \cup Prefixes(p)

\* _is_home(path): the first part of the path is '~'
is_home(p) == Len(p) > 0 /\ p[1] = "~"

(***************************************************************************)
(* The state.                                                              *)
(***************************************************************************)
VARIABLES
  self,     \* the attributes of the AlphaVantage instance
  fs,       \* the directories that exist
  env,      \* the environment variable AV_API_KEY
  excel,    \* _EXCEL_: openpyxl could be imported
  proc,     \* "running", "exited" (sys.exit) or "failed" (__init__ raised)
  stack,    \* the frames of the operation in progress, innermost last
  call,     \* the top-level operation in progress or last finished
  sent,     \* every request the transport adapter issued, with its fate
  ncalls    \* the number of top-level operations started

vars == <<self, fs, env, excel, proc, stack, call, sent, ncalls>>

(***************************************************************************)
(* The property setters.  Each takes the world w = [self, fs, exc] and the *)
(* value assigned and gives the world after the assignment; exc names the  *)
(* exception the assignment raised, "" when it raised none.                *)
(***************************************************************************)
Raise(w, e) == [w EXCEPT !.exc = e]

\* os.getenv('AV_API_KEY')
getenv == env

\* api_key.setter
api_key_setter(w, value) ==
  IF value = PyNone
  THEN [w EXCEPT !.self.apikey = getenv]
  ELSE IF IsStr(value) /\ value.s # ""
  THEN [w EXCEPT !.self.apikey = value]
  ELSE [w EXCEPT !.self.apikey = PyNone, !.exc = "SystemExit"]

\* export.setter
export_setter(w, value) ==
  IF value # PyNone /\ IsBool(value)
  THEN [w EXCEPT !.self.export = value]
  ELSE [w EXCEPT !.self.export = PyBool(FALSE)]

\* _init_export_path
init_export_path(w) ==
  IF w.self.export = PyBool(TRUE)
  THEN IF w.self.export_path.l \notin w.fs
       THEN [w EXCEPT !.fs = mkdir(w.fs, w.self.export_path.l)]
       ELSE w
  ELSE w

\* export_path.setter
export_path_setter(w, value) ==
  IF value # PyNone /\ IsStr(value)
  THEN LET path == PathParts[value.s]
           w1 == IF is_home(path)
                 THEN [w EXCEPT !.self.export_path = PyPath(homedir \o Tail(path))]
                 ELSE [w EXCEPT !.self.export_path = PyPath(path)]
       IN init_export_path(w1)
  ELSE w

\* value.lower() in allowed, for the setters of the string-valued fields:
\* "raise" when value has no lower(), else whether the lowered value is allowed
LowerIn(value, allowed) ==
  IF value = PyNone THEN "no"
  ELSE IF ~IsStr(value) THEN "raise"
  ELSE IF lower(value.s) \in allowed THEN "yes" ELSE "no"

\* output_size.setter
output_size_setter(w, value) ==
  LET c == LowerIn(value, Range(api_outputsize)) IN
  IF c = "raise" THEN Raise(w, "AttributeError")
  ELSE IF c = "yes"
  THEN [w EXCEPT !.self.output_size = PyStr(lower(value.s))]
  ELSE [w EXCEPT !.self.output_size = PyStr(api_outputsize[1])]

\* the file formats output.setter accepts
output_type ==
  IF excel THEN <<"csv", "json", "pkl", "html", "txt", "xlsx">>
  ELSE <<"csv", "json", "pkl", "html", "txt">>

\* output.setter
output_setter(w, value) ==
  LET c == LowerIn(value, Range(output_type)) IN
  IF c = "raise" THEN Raise(w, "AttributeError")
  ELSE IF c = "yes"
  THEN [w EXCEPT !.self.output = PyStr(lower(value.s))]
  ELSE [w EXCEPT !.self.output = PyStr(output_type[1])]

\* datatype.setter
datatype_setter(w, value) ==
  LET c == LowerIn(value, Range(api_datatype)) IN
  IF c = "raise" THEN Raise(w, "AttributeError")
  ELSE IF c = "yes"
  THEN [w EXCEPT !.self.datatype = PyStr(lower(value.s))]
  ELSE [w EXCEPT !.self.datatype = PyStr(api_datatype[1])]

\* proxy.setter
proxy_setter(w, value) ==
  IF value # PyNone /\ value.t = "dict"
  THEN [w EXCEPT !.self.proxy = value]
  ELSE [w EXCEPT !.self.proxy = PyDict("")]

\* clean.setter
clean_setter(w, value) ==
  IF value # PyNone /\ IsBool(value)
  THEN [w EXCEPT !.self.clean = value]
  ELSE [w EXCEPT !.self.clean = PyBool(FALSE)]

(***************************************************************************)
(* __init__: the assignments in the order of the source; an assignment     *)
(* that raises ends the construction.                                      *)
(***************************************************************************)
Blank ==
  [apikey |-> Unset, export |-> Unset, export_path |-> Unset, output |-> Unset,
   datatype |-> Unset, output_size |-> Unset, proxy |-> Unset, clean |-> Unset,
   response_history |-> <<>>]

\* the directories that exist before the client is constructed
fs0 == Prefixes(homedir)

\* the k-th assignment of __init__ (lines 87-95)
assign(w, k, a) ==
  CASE k = 1 -> api_key_setter(w, a.api_key)
    [] k = 2 -> export_setter(w, a.export)
    [] k = 3 -> export_path_setter(w, a.export_path)
    [] k = 4 -> output_setter(w, a.output)
    [] k = 5 -> datatype_setter(w, a.datatype)
    [] k = 6 -> output_size_setter(w, a.output_size)
    [] k = 7 -> proxy_setter(w, a.proxy)
    [] k = 8 -> clean_setter(w, a.clean)

RECURSIVE assign_from(_, _, _)
assign_from(w, k, a) ==
  IF k > 8 \/ w.exc # "" THEN w ELSE assign_from(assign(w, k, a), k + 1, a)

init(a) == assign_from([self |-> Blank, fs |-> fs0, exc |-> ""], 1, a)

(***************************************************************************)
(* Results.                                                                *)
(***************************************************************************)
NoResult == [kind |-> "none", rows |-> <<>>, clean |-> FALSE, body |-> ""]
Text(body) == [kind |-> "text", rows |-> <<>>, clean |-> FALSE, body |-> body]
Table(rows) == [kind |-> "table", rows |-> rows, clean |-> FALSE, body |-> ""]

\* no keyword arguments: the function from no name
NoKwargs == <<>>

NoCall == [op |-> "", function |-> PyNone, symbol |-> PyNone, interval |-> PyNone,
           kwargs |-> NoKwargs, response |-> <<>>, key |-> PyNone,
           n |-> 0, value |-> [kind |-> "none", v |-> <<>>],
           state |-> "idle", result |-> NoResult, results |-> <<>>, exc |-> "",
           nreq |-> 0, swaps |-> 0, h0 |-> 0]

\* the states after the construction of a client with arguments in Args, in
\* an environment of Envs, with openpyxl as Excels says
Constructed(Args, Envs, Excels) ==
  /\ env \in Envs
  /\ excel \in Excels
  /\ \E a \in Args :
       LET w == init(a) IN
       /\ self = w.self
       /\ fs = w.fs
       /\ proc = CASE w.exc = "" -> "running" [] w.exc = "SystemExit" -> "exited"
                   [] OTHER -> "failed"
  /\ stack = <<>>
  /\ call = NoCall
  /\ sent = <<>>
  /\ ncalls = 0

\* clients constructed with a key, for the operations
InitArgs ==
  [api_key : {PyStr("k")},
   export : {PyBool(FALSE), PyBool(TRUE)},
   export_path : {PyStr("~/av_data")},
   output : {PyStr("csv")},
   datatype : {PyStr("json"), PyStr("CSV")},
   output_size : {PyStr("compact")},
   proxy : {PyDict("")},
   clean : {PyBool(FALSE), PyBool(TRUE)}]

Init == Constructed(InitArgs, {PyNone}, {FALSE})

\* clients constructed with arbitrary values of the validated fields
ConfigArgs ==
  [api_key : {PyStr("k")},
   export : {PyBool(FALSE), PyNone},
   export_path : {PyStr("/srv/out"), PyNone},
   output : {PyStr("csv"), PyStr("XLSX")},
   datatype : {PyStr("json"), PyInt(5)},
   output_size : {PyStr("compact"), PyStr("Full")},
   proxy : {PyDict(""), PyNone},
   clean : {PyBool(FALSE)}]

InitConfig == Constructed(ConfigArgs, {PyNone}, BOOLEAN)

\* clients constructed with or without a key, exporting or not
ExportArgs ==
  [api_key : {PyNone, PyStr("k"), PyStr("")},
   export : {PyBool(FALSE), PyBool(TRUE)},
   export_path : {PyStr("~/av_data"), PyNone},
   output : {PyStr("csv")},
   datatype : {PyStr("json")},
   output_size : {PyStr("compact")},
   proxy : {PyDict("")},
   clean : {PyBool(FALSE)}]

InitExport == Constructed(ExportArgs, {PyNone, PyStr("envk")}, {FALSE})

Idle == proc = "running" /\ stack = <<>>

World == [self |-> self, fs |-> fs, exc |-> ""]

(***************************************************************************)
(* The remote API.  A response body is named; Parses says whether it is    *)
(* JSON and Payload gives its top-level entries in payload order: the key, *)
(* whether its value is the data of a strategy (a mapping of timestamps    *)
(* for a time series, a sequence of quotes for a batch), and the entries   *)
(* of that data in the order the API delivers them (newest first).         *)
(***************************************************************************)
\* response.json() succeeds
Parses(body) == body \in {"series", "error"}

Payload(body) ==
  CASE body = "series" ->
         << [key |-> "Meta Data", map |-> TRUE, ts |-> <<>>],
            [key |-> "Time Series (Daily)", map |-> TRUE, ts |-> <<2, 1>>] >>
    [] body = "error" ->
         << [key |-> "Error Message", map |-> FALSE, ts |-> <<>>] >>
    [] OTHER -> <<>>

\* what requests.get can give: a response, or an exception of the transport
Net ==
  { [kind |-> "response", status |-> 200, body |-> "series"],
    [kind |-> "response", status |-> 200, body |-> "error"],
    [kind |-> "response", status |-> 500, body |-> "error"],
    [kind |-> "response", status |-> 500, body |-> "html"],
    [kind |-> "timeout", status |-> 0, body |-> "html"] }

Reverse(q) == [i \in 1..Len(q) |-> q[Len(q) + 1 - i]]

\* key.startswith('Meta Data')
startswith_meta(key) == key \in {"Meta Data"}

\* _function_alias: the alias of a function, the function itself if it has none
function_alias(function) ==
  IF \E a \in DOMAIN api_function : api_function[a] = function
  THEN CHOOSE a \in DOMAIN api_function : api_function[a] = function
  ELSE function

\* call_history()
call_history(s) == s.response_history

\* a variant of line 569 that counts from the head of the history
nth(s, n) ==
  IF n > 0 THEN call_history(s)[n] ELSE <<>>

\* last(n)
last(s, n) ==
  IF n > 0 THEN call_history(s)[Len(call_history(s)) + 1 - n] ELSE <<>>

(***************************************************************************)
(* _save_df: the path is derived from the parameters of last(); the write  *)
(* fails when the export directory does not exist.  The outcome is         *)
(* [exc, dir, existed, name, parameters]: the exception, the directory     *)
(* written to, whether it existed, the parts of the name of the file, and  *)
(* the parameters last() gave.                                             *)
(***************************************************************************)
\* the parameters a file name of the function is made of (lines 220-239); no
\* alias of the catalog has two letters of which the first is C
name_parameters(function) ==
  CASE function = "CURRENCY_EXCHANGE_RATE" -> <<"from_currency", "to_currency">>
    [] function = "SECTOR" -> <<>>
    [] function = "BATCH_STOCK_QUOTES" -> <<>>
    [] function = "TIME_SERIES_INTRADAY" -> <<"symbol", "interval">>
    [] OTHER -> <<"symbol">>

\* the parameters added to the name of an indicator when present (lines 232-237)
name_options(function) ==
  IF function \in api_indicator THEN <<"interval", "series_type", "time_period">>
  ELSE <<>>

save_df(w, function) ==
  LET short_function == function_alias(function)
      parameters == last(w.self, 1)
      needed == name_parameters(function)
      options == SelectSeq(name_options(function), LAMBDA x : x \in DOMAIN parameters)
      name == [i \in 1..Len(needed) |-> parameters[needed[i]]]
                \o <<PyStr(short_function)>>
                \o [i \in 1..Len(options) |-> parameters[options[i]]]
                \o <<w.self.output>>
  IN IF w.self.export_path = Unset
     THEN [exc |-> "AttributeError", dir |-> <<>>, existed |-> FALSE, name |-> <<>>,
           parameters |-> parameters]
     ELSE IF \E i \in 1..Len(needed) : needed[i] \notin DOMAIN parameters
     THEN [exc |-> "KeyError", dir |-> w.self.export_path.l, existed |-> FALSE,
           name |-> <<>>, parameters |-> parameters]
     ELSE LET dir == w.self.export_path.l
          IN [exc |-> IF dir \in w.fs THEN "" ELSE "OSError",
              dir |-> dir, existed |-> dir \in w.fs, name |-> name,
              parameters |-> parameters]

(***************************************************************************)
(* _to_dataframe for the generic time-series and the batch-quote strategy,  *)
(* with the optional simplifier and exporter.  The outcome is [exc,        *)
(* result, simplified, saved, key]; saved is the outcome of _save_df when  *)
(* it ran, else NoSave; key is the key whose value the table was made of.  *)
(***************************************************************************)
NoSave == [exc |-> "", dir |-> <<>>, existed |-> FALSE, name |-> <<PyNone>>,
           parameters |-> <<>>]

\* a variant of line 261 that takes the first of the keys
first(keys) == keys[1]

\* line 261: [...].pop(), the last of the keys that are no metadata
pop(keys) == keys[Len(keys)]

\* a variant of line 286 that leaves the rows in the order of the payload
in_payload_order(q) == q

\* line 286: df.iloc[::-1]
reversed(q) == Reverse(q)

to_dataframe(w, function, response) ==
  LET keys == SelectSeq(response, LAMBDA e : ~startswith_meta(e.key))
      failed(e, k) == [exc |-> e, result |-> NoResult, simplified |-> FALSE,
                       saved |-> NoSave, key |-> k]
  IN IF keys = <<>>
     THEN failed("IndexError", PyNone)
     ELSE LET key == pop(keys) IN
          IF key.key = ""
          THEN failed("KeyError", PyNone)
          ELSE IF ~key.map
          THEN failed("ValueError", PyStr(key.key))
          ELSE LET df == Table(reversed(key.ts))
                   df1 == IF w.self.clean = PyBool(TRUE)
                          THEN [df EXCEPT !.clean = TRUE] ELSE df
                   saved == IF w.self.export = PyBool(TRUE)
                            THEN save_df(w, function) ELSE NoSave
               IN [exc |-> saved.exc, result |-> df1,
                   simplified |-> (w.self.clean = PyBool(TRUE)), saved |-> saved,
                   key |-> PyStr(key.key)]

(***************************************************************************)
(* _av_api_call.  The outcome is [self, result, entry]: the instance after *)
(* the call, the value returned, and the record of the request: its        *)
(* parameters, the response, and what the adapter did with it.  entry.exc  *)
(* names the exception that ended the call, "" when it returned.           *)
(***************************************************************************)
\* line 197: the body is parsed as JSON
parses_json(dt) == dt = "json"

\* a variant of line 205 that hands every body to _to_dataframe
normalizes_always(dt) == TRUE

\* line 205: the parsed body is handed to _to_dataframe
normalizes(dt) == dt = "json"

\* a variant of line 202 that inserts the parameters at the head
history_insert(h, parameters) == <<parameters>> \o h

\* line 202: self.__response_history.append(parameters)
history_append(h, parameters) == Append(h, parameters)

av_api_call(w, parameters0, net) ==
  LET parameters ==
        [x \in DOMAIN parameters0 \cup {"apikey"} |->
           IF x = "apikey" THEN w.self.apikey ELSE parameters0[x]]
      dt == w.self.datatype.s
      e0 == [params |-> parameters, kind |-> net.kind, status |-> net.status,
             body |-> net.body, datatype |-> dt, recorded |-> FALSE,
             normalized |-> FALSE, simplified |-> FALSE, saved |-> NoSave,
             exc |-> "", result |-> NoResult]
  IN IF net.kind = "timeout"
     THEN [self |-> w.self, result |-> NoResult,
           entry |-> [e0 EXCEPT !.exc = "Timeout"]]
     ELSE IF parses_json(dt) /\ ~Parses(net.body)
     THEN [self |-> w.self, result |-> NoResult,
           entry |-> [e0 EXCEPT !.exc = "JSONDecodeError"]]
     ELSE LET s1 == [w.self EXCEPT
                       !.response_history = history_append(@, parameters)]
              e1 == [e0 EXCEPT !.recorded = TRUE]
          IN IF normalizes(dt)
             THEN LET d == to_dataframe([w EXCEPT !.self = s1],
                                        parameters["function"].s,
                                        Payload(net.body))
                  IN [self |-> s1, result |-> d.result,
                      entry |-> [e1 EXCEPT !.normalized = TRUE,
                                           !.simplified = d.simplified,
                                           !.saved = d.saved, !.exc = d.exc,
                                           !.result = d.result]]
             ELSE [self |-> s1, result |-> Text(net.body),
                   entry |-> [e1 EXCEPT !.result = Text(net.body)]]

(***************************************************************************)
(* data(): the frames of the calls in progress.  A frame holds the         *)
(* function and symbol of the call, arg (the symbol it was called with),   *)
(* and for the frame that maps over a list of symbols the uppercased       *)
(* symbols, the index of the next one and the results so far.              *)
(***************************************************************************)
Frame(function, symbol) ==
  [pc |-> "start", function |-> function, symbol |-> symbol, arg |-> symbol,
   symbols |-> <<>>, i |-> 0, results |-> <<>>]

top == stack[Len(stack)]
rest == SubSeq(stack, 1, Len(stack) - 1)
Running == proc = "running" /\ stack # <<>>

\* line 396: the symbol is a list of more than one element
is_symbol_list(symbol) == symbol.t = "list" /\ Len(symbol.l) > 1

\* a variant of line 398 that leaves the symbols as given
symbols_as_given(l) == l

\* line 398: list(map(str.upper, symbol))
symbols_upper(l) == [i \in 1..Len(l) |-> upper(l[i])]

\* lines 403-406: symbol.upper(), the symbol itself when it has no upper()
symbol_upper(symbol) == IF IsStr(symbol) THEN PyStr(upper(symbol.s)) ELSE symbol

\* line 410: the function is an indicator or an alias
resolves(function) == function \in api_indicator \/ function \in DOMAIN api_function

\* line 410
resolve(function) ==
  IF function \notin api_indicator THEN api_function[function] ELSE function

\* lines 417-421: the parameters before the keyword arguments are added
build_parameters(s, function, symbol) ==
  LET base == [x \in {"function", "symbol"} |->
                 IF x = "function" THEN PyStr(function) ELSE symbol]
  IN IF function \notin api_indicator
     THEN [x \in {"function", "symbol", "datatype", "outputsize"} |->
             CASE x = "datatype" -> s.datatype
               [] x = "outputsize" -> s.output_size
               [] OTHER -> base[x]]
     ELSE base

(***************************************************************************)
(* Keyword arguments: a function from the names given to their values.     *)
(* _parameters gives the required and the optional parameters of a         *)
(* function; _validate_parameters coerces the values of the options it     *)
(* knows and inserts the option it was called for when its value is        *)
(* accepted.                                                               *)
(***************************************************************************)
\* _parameters(function, kind)
parameters_of(function, kind) ==
  IF function \in DOMAIN api_parameters THEN api_parameters[function][kind] ELSE <<>>

\* the options _validate_parameters knows, in the order it coerces them
validated ==
  <<"matype", "nbdevup", "nbdevdn", "timeperiod1", "timeperiod2", "timeperiod3",
    "acceleration", "maximum", "fastlimit", "slowlimit", "fastperiod", "slowperiod",
    "signalperiod", "fastmatype", "slowmatype", "signalmatype", "fastkperiod",
    "fastdperiod", "fastdmatype", "slowkperiod", "slowdperiod", "slowkmatype",
    "slowdmatype">>

\* the options whose value must be a moving-average-type code
matypes ==
  {"matype", "fastmatype", "slowmatype", "signalmatype", "fastdmatype",
   "slowkmatype", "slowdmatype"}
\* the options whose value must lie between 0 and 1
limits == {"fastlimit", "slowlimit"}

\* the coercion of the value of an option: math.fabs(value) for nbdevup and
\* nbdevdn, math.fabs(float(value)) for acceleration, maximum and the limits,
\* int(math.fabs(value)) for the others
coerce(option, value) ==
  IF option \in {"nbdevup", "nbdevdn"} THEN fabs(value)
  ELSE IF option \in {"acceleration", "maximum"} \cup limits
  THEN LET f == py_float(value) IN IF f.exc # "" THEN f ELSE fabs(f.v)
  ELSE LET f == fabs(value) IN IF f.exc # "" THEN f ELSE py_int(f.v)

\* a variant of lines 475 and 477 that accepts the limit 1 itself
in_limits_closed(v) == v # Inf /\ v.n > 0 /\ v.n <= 10

\* lines 475 and 477: fastlimit > 0 and fastlimit < 1
in_limits(v) == v # Inf /\ v.n > 0 /\ v.n < 10

\* lines 442, 495-499, 510, 522-524: matype in self.__api_indicator_matype
in_matype(v) == v.n \in Range(api_indicator_matype)

\* the condition under which the coerced value v of an option is inserted
accepts(option, v) ==
  IF option \in matypes THEN in_matype(v)
  ELSE IF option \in limits THEN in_limits(v)
  ELSE TRUE

\* _validate_parameters(option, parameters, **kwargs): [exc, parameters]
validate_parameters(option, parameters, kwargs) ==
  LET failing == SelectSeq(validated, LAMBDA o :
                   o \in DOMAIN kwargs /\ coerce(o, kwargs[o]).exc # "")
  IN IF failing # <<>>
     THEN [exc |-> coerce(failing[1], kwargs[failing[1]]).exc,
           parameters |-> parameters]
     ELSE IF option \in Range(validated) /\ option \in DOMAIN kwargs
             /\ accepts(option, coerce(option, kwargs[option]).v)
     THEN [exc |-> "",
           parameters |-> (option :> coerce(option, kwargs[option]).v) @@ parameters]
     ELSE [exc |-> "", parameters |-> parameters]

\* lines 423-426: the required parameters given are copied as they are
RECURSIVE with_required(_, _, _, _)
with_required(parameters, required, k, kwargs) ==
  IF k > Len(required) THEN parameters
  ELSE with_required(IF required[k] \in DOMAIN kwargs
                     THEN (required[k] :> kwargs[required[k]]) @@ parameters
                     ELSE parameters,
                     required, k + 1, kwargs)

\* lines 428-431: the options given are validated in the order of the catalog
RECURSIVE with_optional(_, _, _, _)
with_optional(b, optional, k, kwargs) ==
  IF k > Len(optional) THEN b
  ELSE with_optional(
         CHOOSE r \in {IF x.exc # "" \/ optional[k] \notin DOMAIN kwargs THEN x
                       ELSE validate_parameters(optional[k], x.parameters, kwargs) :
                       x \in {b}} : TRUE,
         optional, k + 1, kwargs)

\* lines 423-431: [exc, parameters]
with_kwargs(parameters, kwargs) ==
  LET function == parameters["function"].s
  IN with_optional(
       [exc |-> "",
        parameters |-> with_required(parameters, parameters_of(function, "required"),
                                     1, kwargs)],
       parameters_of(function, "optional"), 1, kwargs)

\* the index of the symbol the mapping frame is at, 0 outside a mapping
loop_index == IF stack # <<>> /\ stack[1].pc = "loop" THEN stack[1].i ELSE 0

\* the stack after the innermost frame returned v to its caller
returned_to(v) ==
  LET parent == rest[Len(rest)] IN
  IF parent.pc = "loop"
  THEN [rest EXCEPT ![Len(rest)] =
          [parent EXCEPT !.results = Append(@, [arg |-> top.arg, value |-> v]),
                         !.i = @ + 1]]
  ELSE [rest EXCEPT ![Len(rest)].pc = "after_retry"]

\* the operation in progress ends with exception e, which no frame catches
Raised(e) ==
  /\ stack' = <<>>
  /\ call' = [call EXCEPT !.state = "raised", !.exc = e]

\* the operation issues a request and returns its result or raises
Request(parameters) ==
  \E net \in Net :
    LET r == av_api_call(World, parameters, net)
        entry == [li |-> loop_index, call |-> ncalls, kwargs |-> call.kwargs] @@ r.entry
    IN /\ self' = r.self
       /\ sent' = Append(sent, entry)
       /\ IF r.entry.exc # ""
          THEN /\ stack' = <<>>
               /\ call' = [call EXCEPT !.state = "raised", !.exc = r.entry.exc,
                                       !.nreq = @ + 1]
          ELSE IF rest = <<>>
          THEN /\ stack' = <<>>
               /\ call' = [call EXCEPT !.state = "returned", !.result = r.result,
                                       !.nreq = @ + 1]
          ELSE /\ stack' = returned_to(r.result)
               /\ call' = [call EXCEPT !.nreq = @ + 1]
       /\ UNCHANGED <<fs, env, excel, proc, ncalls>>

\* lines 417-434: the keyword arguments are added to the parameters and the
\* request is sent; an exception of the coercion ends the operation
Send(parameters) ==
  \E b \in {with_kwargs(parameters, call.kwargs)} :
    IF b.exc # ""
    THEN /\ Raised(b.exc)
         /\ UNCHANGED <<self, fs, env, excel, proc, sent, ncalls>>
    ELSE Request(b.parameters)

(***************************************************************************)
(* The operations.                                                         *)
(***************************************************************************)
\* the arguments of the calls of the model
Functions == {PyStr("d"), PyStr("sma"), PyStr("aapl"), PyStr("foo")}
Symbols == {PyStr("aapl"), PyStr("d"), PyNone, PyList(<<"msft", "aapl">>)}

\* a call of data(function, symbol, **kwargs) begins
data(function, symbol, kwargs) ==
  /\ Idle
  /\ ncalls < MaxCalls
  /\ stack' = <<Frame(function, symbol)>>
  /\ call' = [NoCall EXCEPT !.op = "data", !.function = function,
                            !.symbol = symbol, !.state = "running",
                            !.kwargs = kwargs,
                            !.h0 = Len(self.response_history)]
  /\ ncalls' = ncalls + 1
  /\ UNCHANGED <<self, fs, env, excel, proc, sent>>

\* lines 396-398: a list of symbols is uppercased
data_symbols ==
  /\ Running
  /\ top.pc = "start"
  /\ is_symbol_list(top.symbol)
  /\ stack' = [stack EXCEPT ![Len(stack)] =
                 [top EXCEPT !.pc = "loop", !.symbols = symbols_upper(top.symbol.l),
                             !.i = 1]]
  /\ UNCHANGED <<self, fs, env, excel, proc, call, sent, ncalls>>

\* line 400: self.data(function, ticker) for the next ticker
data_ticker ==
  /\ Running
  /\ top.pc = "loop"
  /\ top.i <= Len(top.symbols)
  /\ stack' = Append(stack, Frame(top.function, PyStr(top.symbols[top.i])))
  /\ UNCHANGED <<self, fs, env, excel, proc, call, sent, ncalls>>

\* line 400: the list of the results is returned
data_results ==
  /\ Running
  /\ top.pc = "loop"
  /\ top.i > Len(top.symbols)
  /\ stack' = <<>>
  /\ call' = [call EXCEPT !.state = "returned", !.results = top.results]
  /\ UNCHANGED <<self, fs, env, excel, proc, sent, ncalls>>

\* line 407: function.upper() of a function that is no string
data_attribute_error ==
  /\ Running
  /\ top.pc = "start"
  /\ ~is_symbol_list(top.symbol)
  /\ ~IsStr(top.function)
  /\ Raised("AttributeError")
  /\ UNCHANGED <<self, fs, env, excel, proc, sent, ncalls>>

\* lines 407-434: the function resolves; the request is built and sent
data_request ==
  /\ Running
  /\ top.pc = "start"
  /\ ~is_symbol_list(top.symbol)
  /\ IsStr(top.function)
  /\ resolves(upper(top.function.s))
  /\ Send(build_parameters(self, resolve(upper(top.function.s)),
                           symbol_upper(top.symbol)))

\* lines 411-414: the function does not resolve; function and symbol are
\* exchanged and data() is called again
data_swap ==
  /\ Running
  /\ top.pc = "start"
  /\ ~is_symbol_list(top.symbol)
  /\ IsStr(top.function)
  /\ ~resolves(upper(top.function.s))
  /\ LET function == symbol_upper(top.symbol)
         symbol == PyStr(upper(top.function.s))
     IN IF Len(stack) >= MaxDepth
        THEN Raised("RecursionError")
        ELSE /\ stack' = Append([stack EXCEPT ![Len(stack)] =
                                   [top EXCEPT !.pc = "retry", !.function = function,
                                               !.symbol = symbol]],
                                Frame(function, symbol))
             /\ call' = [call EXCEPT !.swaps = @ + 1]
  /\ UNCHANGED <<self, fs, env, excel, proc, sent, ncalls>>

\* lines 417-434 after line 414 returned: the request is built from the
\* exchanged function and symbol and sent
data_request_after_swap ==
  /\ Running
  /\ top.pc = "after_retry"
  /\ Send(build_parameters(self, top.function.s, top.symbol))

(***************************************************************************)
(* intraday(symbol, interval)                                              *)
(***************************************************************************)
\* '{}'.format(interval) for an int or a bool
format(v) == IF IsBool(v) THEN (IF v.n = 1 THEN "True" ELSE "False") ELSE ToString(v.n)

\* int(re.sub(r'min', '', x)) for the interval tokens
minutes(x) == CHOOSE k \in 0..60 : ToString(k) \o "min" = x

\* the interval values of the model
Intervals ==
  {PyStr("5min"), PyStr("7min"), PyInt(5), PyInt(7), PyInt(60), PyBool(TRUE),
   PyBool(FALSE), PyFloat(50), PyNone}

\* lines 380-385: the interval parameter, PyNone when the call is abandoned
interval_parameter(interval) ==
  IF IsStr(interval) /\ interval.s \in Range(api_series_interval)
  THEN interval
  ELSE IF IsInt(interval)
          /\ interval.n \in {minutes(x) : x \in Range(api_series_interval)}
  THEN PyStr(format(interval) \o "min")
  ELSE PyNone

intraday(symbol, interval) ==
  /\ Idle
  /\ ncalls < MaxCalls
  /\ ncalls' = ncalls + 1
  /\ LET c == [NoCall EXCEPT !.op = "intraday", !.symbol = symbol,
                             !.interval = interval,
                             !.h0 = Len(self.response_history)]
         ip == interval_parameter(interval)
         parameters ==
           [x \in {"function", "symbol", "datatype", "outputsize", "interval"} |->
              CASE x = "function" -> PyStr("TIME_SERIES_INTRADAY")
                [] x = "symbol" -> PyStr(upper(symbol.s))
                [] x = "datatype" -> self.datatype
                [] x = "outputsize" -> self.output_size
                [] x = "interval" -> ip]
     IN IF ip = PyNone
        THEN /\ call' = [c EXCEPT !.state = "returned"]
             /\ UNCHANGED <<self, sent>>
        ELSE \E net \in Net :
               LET r == av_api_call(World, parameters, net)
               IN /\ self' = r.self
                  /\ sent' = Append(sent, [li |-> 0, call |-> ncalls + 1,
                                           kwargs |-> NoKwargs] @@ r.entry)
                  /\ call' = IF r.entry.exc # ""
                             THEN [c EXCEPT !.state = "raised", !.exc = r.entry.exc,
                                            !.nreq = 1]
                             ELSE [c EXCEPT !.state = "returned",
                                            !.result = r.result, !.nreq = 1]
  /\ UNCHANGED <<fs, env, excel, proc, stack>>

(***************************************************************************)
(* Assignments to the properties of a constructed client.                  *)
(***************************************************************************)
\* the client after the assignment gave the world w
Assigned(name, value, w) ==
  /\ self' = w.self
  /\ fs' = w.fs
  /\ proc' = IF w.exc = "SystemExit" THEN "exited" ELSE proc
  /\ call' = [NoCall EXCEPT !.op = name, !.symbol = value,
                            !.state = IF w.exc = "" THEN "returned" ELSE "raised",
                            !.exc = w.exc]
  /\ UNCHANGED <<env, excel, stack, sent, ncalls>>

set_datatype(value) == Idle /\ Assigned("datatype", value, datatype_setter(World, value))
set_export(value) == Idle /\ Assigned("export", value, export_setter(World, value))
set_export_path(value) ==
  Idle /\ Assigned("export_path", value, export_path_setter(World, value))
set_clean(value) == Idle /\ Assigned("clean", value, clean_setter(World, value))
set_api_key(value) == Idle /\ Assigned("api_key", value, api_key_setter(World, value))
set_output_size(value) ==
  Idle /\ Assigned("output_size", value, output_size_setter(World, value))
set_output(value) == Idle /\ Assigned("output", value, output_setter(World, value))
set_proxy(value) == Idle /\ Assigned("proxy", value, proxy_setter(World, value))

\* the values assigned to the properties
Values == {PyNone, PyStr("JSON"), PyStr("Full"), PyStr("XLSX"), PyInt(5), PyBool(TRUE),
           PyDict("http")}

Next ==
  \/ \E function \in Functions, symbol \in Symbols : data(function, symbol, NoKwargs)
  \/ data_symbols
  \/ data_ticker
  \/ data_results
  \/ data_attribute_error
  \/ data_request
  \/ data_swap
  \/ data_request_after_swap
  \/ \E interval \in Intervals : intraday(PyStr("aapl"), interval)

Spec == Init /\ [][Next]_vars

NextConfig ==
  \/ \E value \in Values : set_export(value)
  \/ \E value \in {PyNone, PyStr("/srv/out"), PyInt(5)} : set_export_path(value)
  \/ \E value \in Values : set_output(value)
  \/ \E value \in Values : set_datatype(value)
  \/ \E value \in Values : set_output_size(value)
  \/ \E value \in Values : set_proxy(value)
  \/ \E value \in Values : set_clean(value)

SpecConfig == InitConfig /\ [][NextConfig]_vars

NextExport ==
  \/ \E value \in {PyNone, PyStr("k2"), PyStr("")} : set_api_key(value)
  \/ \E value \in {PyBool(TRUE), PyBool(FALSE)} : set_export(value)
  \/ \E value \in {PyNone, PyStr("/srv/out"), PyStr("~/av_data")} : set_export_path(value)
  \/ data(PyStr("d"), PyStr("aapl"), NoKwargs)
  \/ data_request

SpecExport == InitExport /\ [][NextExport]_vars

\* the calls of data() with keyword arguments of the model: each option of the
\* matype family and each limit alone, for a function that has the option,
\* and some calls with two keyword arguments
MatypeValues == {PyInt(1), PyInt(-3), PyInt(9), PyFloat(89), PyBool(TRUE), PyStr("x")}
LimitValues ==
  {PyFloat(5), PyFloat(-5), PyFloat(15), PyFloat(0), PyFloat(10), PyStr("0.5"), Inf,
   PyNone}
FunctionOf(option) ==
  CASE option = "matype" -> "apo"
    [] option \in {"fastmatype", "slowmatype", "signalmatype"} -> "macdext"
    [] option \in {"slowkmatype", "slowdmatype"} -> "stoch"
    [] option = "fastdmatype" -> "stochf"
    [] OTHER -> "mama"
OptionCalls ==
  {[function |-> FunctionOf(o), kwargs |-> (o :> v)] : o \in matypes, v \in MatypeValues}
  \cup {[function |-> "mama", kwargs |-> (o :> v)] : o \in limits, v \in LimitValues}
  \cup {[function |-> "mama",
         kwargs |-> ("fastlimit" :> PyFloat(15)) @@ ("slowlimit" :> PyFloat(5))],
        [function |-> "mama",
         kwargs |-> ("fastlimit" :> PyFloat(5)) @@ ("interval" :> PyStr("daily"))],
        [function |-> "mama", kwargs |-> ("matype" :> PyStr("x"))],
        [function |-> "apo",
         kwargs |-> ("matype" :> PyInt(1)) @@ ("fastlimit" :> PyStr("x"))],
        [function |-> "apo",
         kwargs |-> ("matype" :> PyInt(9)) @@ ("fastperiod" :> PyInt(-3))],
        [function |-> "apo",
         kwargs |-> ("fastperiod" :> Inf) @@ ("nbdevup" :> PyFloat(-5))],
        [function |-> "d", kwargs |-> ("matype" :> PyInt(1))]}

OptionArgs ==
  [api_key : {PyStr("k")},
   export : {PyBool(FALSE)},
   export_path : {PyStr("~/av_data")},
   output : {PyStr("csv")},
   datatype : {PyStr("csv")},
   output_size : {PyStr("compact")},
   proxy : {PyDict("")},
   clean : {PyBool(FALSE)}]

InitOptions == Constructed(OptionArgs, {PyNone}, {FALSE})

NextOptions ==
  \/ \E c \in OptionCalls : data(PyStr(c.function), PyStr("aapl"), c.kwargs)
  \/ data_request

SpecOptions == InitOptions /\ [][NextOptions]_vars

(***************************************************************************)
(* The normalizer on the payloads of the model: up to MaxKeys entries with *)
(* different keys.                                                         *)
(***************************************************************************)
MaxKeys == 3

PayloadEntries ==
  {[key |-> "Meta Data", map |-> TRUE, ts |-> <<>>],
   [key |-> "Note", map |-> FALSE, ts |-> <<>>],
   [key |-> "", map |-> TRUE, ts |-> <<9>>]}
  \cup {[key |-> "Time Series (Daily)", map |-> TRUE, ts |-> t] :
          t \in {<<>>, <<2, 1>>, <<3, 2, 1>>}}
  \cup {[key |-> "Time Series (Weekly)", map |-> TRUE, ts |-> t] :
          t \in {<<7, 6>>}}

Payloads ==
  {r \in UNION {[1..n -> PayloadEntries] : n \in 0..MaxKeys} :
     \A i, j \in 1..Len(r) : i # j => r[i].key # r[j].key}

\* _to_dataframe(function, response) on a parsed response
normalize(function, response) ==
  /\ Idle
  /\ ncalls < MaxCalls
  /\ ncalls' = ncalls + 1
  /\ LET d == to_dataframe(World, function, response)
     IN call' = [NoCall EXCEPT !.op = "_to_dataframe", !.function = PyStr(function),
                               !.response = response, !.key = d.key,
                               !.state = IF d.exc = "" THEN "returned" ELSE "raised",
                               !.exc = d.exc, !.result = d.result]
  /\ UNCHANGED <<self, fs, env, excel, proc, stack, sent>>

NormalizerArgs ==
  [api_key : {PyStr("k")},
   export : {PyBool(FALSE)},
   export_path : {PyStr("~/av_data")},
   output : {PyStr("csv")},
   datatype : {PyStr("json")},
   output_size : {PyStr("compact")},
   proxy : {PyDict("")},
   clean : {PyBool(FALSE), PyBool(TRUE)}]

InitNormalizer == Constructed(NormalizerArgs, {PyNone}, {FALSE})

NextNormalizer ==
  \E function \in {"TIME_SERIES_DAILY", "BATCH_STOCK_QUOTES"}, response \in Payloads :
    normalize(function, response)

SpecNormalizer == InitNormalizer /\ [][NextNormalizer]_vars

(***************************************************************************)
(* The call history read with last(n) between calls of data().             *)
(***************************************************************************)
\* last(n): the value returned is one record of the history (kind "dict", held
\* as the one element of v) or a list of records (kind "list")
last_n(n) ==
  /\ Idle
  /\ LET h == call_history(self)
         c == [NoCall EXCEPT !.op = "last", !.n = n, !.h0 = Len(h)]
     IN call' =
          IF n > 0
          THEN IF n <= Len(h)
               THEN [c EXCEPT !.state = "returned",
                              !.value = [kind |-> "dict", v |-> <<last(self, n)>>]]
               ELSE [c EXCEPT !.state = "raised", !.exc = "IndexError"]
          ELSE [c EXCEPT !.state = "returned", !.value = [kind |-> "list", v |-> <<>>]]
  /\ UNCHANGED <<self, fs, env, excel, proc, stack, sent, ncalls>>

HistoryArgs ==
  [api_key : {PyStr("k")},
   export : {PyBool(FALSE)},
   export_path : {PyStr("~/av_data")},
   output : {PyStr("csv")},
   datatype : {PyStr("json"), PyStr("csv")},
   output_size : {PyStr("compact")},
   proxy : {PyDict("")},
   clean : {PyBool(FALSE)}]

InitHistory == Constructed(HistoryArgs, {PyNone}, {FALSE})

NextHistory ==
  \/ \E function \in {PyStr("d"), PyStr("sma")},
        symbol \in {PyStr("aapl"), PyList(<<"msft", "aapl">>)} :
        data(function, symbol, NoKwargs)
  \/ data_symbols
  \/ data_ticker
  \/ data_results
  \/ data_request
  \/ \E n \in -1..3 : last_n(n)

SpecHistory == InitHistory /\ [][NextHistory]_vars

(***************************************************************************)
(* The claims.                                                             *)
(***************************************************************************)
history == self.response_history

\* the requests whose parameters were appended to the call history
Recorded == SelectSeq(sent, LAMBDA e : e.recorded)

\* the call history holds the parameters of the recorded requests, in the
\* order the requests were made
HistoryIsRecorded ==
  /\ Len(history) = Len(Recorded)
  /\ \A i \in 1..Len(Recorded) : history[i] = Recorded[i].params

\* C1: every record of the call history is the parameter map of a call whose
\* HTTP status was 200 and whose response was parsed; a call that got a
\* non-200 status never adds a record.
C1_OnlySuccessfulRecorded ==
  /\ HistoryIsRecorded
  /\ \A i \in 1..Len(Recorded) :
       /\ Recorded[i].status = 200
       /\ Recorded[i].datatype = "json" => Parses(Recorded[i].body)
  /\ \A i \in 1..Len(sent) : sent[i].status # 200 => ~sent[i].recorded

BothUnknown(c) ==
  /\ IsStr(c.function) /\ ~resolves(upper(c.function.s))
  /\ IsStr(c.symbol) /\ ~resolves(upper(c.symbol.s))

\* C3: a call of data() with a single symbol issues exactly one request
\* before it returns, also when function and symbol were passed swapped; a
\* call with k > 1 symbols issues exactly k requests.
C3_OneRequestPerSymbol ==
  call.op = "data" =>
    IF is_symbol_list(call.symbol)
    THEN /\ call.nreq <= Len(call.symbol.l)
         /\ call.state = "returned" => call.nreq = Len(call.symbol.l)
    ELSE /\ call.nreq <= 1
         /\ call.state = "returned" => call.nreq = 1

\* C4: when neither the function nor the swapped name is known, data() swaps
\* exactly once, and the call ends abandoned: it returns no result and sends
\* no request.
C4_SwapOnceThenAbandon ==
  (call.op = "data" /\ BothUnknown(call)) =>
    /\ call.swaps <= 1
    /\ call.nreq = 0
    /\ call.state # "running" =>
         (call.state = "returned" /\ call.result = NoResult /\ call.swaps = 1)

\* the requests of the operation in progress or last finished
OfCall == SelectSeq(sent, LAMBDA e : e.call = ncalls)

\* C5: data() with a list of k > 1 symbols returns k results, element i the
\* result of the single-symbol call for the uppercased i-th symbol; the calls
\* are made in list order, so the records they add are in symbol order.
C5_ResultsInSymbolOrder ==
  (call.op = "data" /\ is_symbol_list(call.symbol)) =>
    /\ \A i, j \in 1..Len(OfCall) : i <= j => OfCall[i].li <= OfCall[j].li
    /\ \A i \in 1..Len(OfCall) :
         /\ OfCall[i].li \in 1..Len(call.symbol.l)
         /\ OfCall[i].params["symbol"] = PyStr(upper(call.symbol.l[OfCall[i].li]))
    /\ call.state = "returned" =>
         /\ Len(call.results) = Len(call.symbol.l)
         /\ \A i \in 1..Len(call.results) :
              /\ call.results[i].arg = PyStr(upper(call.symbol.l[i]))
              /\ \E k \in 1..Len(OfCall) :
                   /\ OfCall[k].li = i
                   /\ OfCall[k].result = call.results[i].value

\* C5, witness: a call with the list ["msft", "aapl"] returned two results
\* and added two records.
C5_Witness ==
  /\ call.op = "data" /\ call.state = "returned"
  /\ call.symbol = PyList(<<"msft", "aapl">>)
  /\ Len(call.results) = 2
  /\ Len(history) = call.h0 + 2
  /\ history[call.h0 + 1]["symbol"] = PyStr("MSFT")
  /\ history[call.h0 + 2]["symbol"] = PyStr("AAPL")

\* the interval is a catalog-valid token, or an integer n with "{n}min"
\* catalog-valid
ValidInterval(v) ==
  \/ v.t = "str" /\ v.s \in Range(api_series_interval)
  \/ v.t \in {"int", "bool"} /\ (format(v) \o "min") \in Range(api_series_interval)

\* C6: intraday() sends a request only for a valid interval, and the
\* interval it sends is a catalog-valid token; for any other interval it
\* returns no result, sends no request and leaves the history unchanged.
C6_IntervalValidOrNoRequest ==
  call.op = "intraday" =>
    IF ValidInterval(call.interval)
    THEN call.nreq = 1
         /\ sent[Len(sent)].params["interval"].s \in Range(api_series_interval)
    ELSE /\ call.nreq = 0
         /\ call.state = "returned" /\ call.result = NoResult
         /\ Len(history) = call.h0

\* C7: with a datatype other than json the adapter returns the raw text body
\* as the final result, and the normalizer, the simplifier and the exporter
\* are not invoked, whatever clean and export are; with json the parsed
\* payload is passed through the normalizer before it is returned.
C7_TextSkipsNormalizer ==
  /\ \A i \in 1..Len(sent) :
       LET e == sent[i] IN
       /\ (e.datatype # "json" /\ e.kind = "response") =>
            /\ ~e.normalized /\ ~e.simplified /\ e.saved = NoSave
            /\ e.exc = "" /\ e.result = Text(e.body)
       /\ (e.datatype = "json" /\ e.exc = "") =>
            (e.normalized /\ e.result.kind = "table")
  /\ (call.op \in {"data", "intraday"} /\ call.state = "returned"
        /\ ~is_symbol_list(call.symbol) /\ call.nreq > 0) =>
       call.result = sent[Len(sent)].result

\* C7, witness: with clean and export set, a call with the csv datatype
\* returned the text of the body.
C7_Witness ==
  /\ self.clean = PyBool(TRUE) /\ self.export = PyBool(TRUE)
  /\ self.datatype = PyStr("csv")
  /\ call.state = "returned" /\ call.nreq = 1
  /\ call.result = Text("series")

\* a validated field holds a valid value
ValidConfig ==
  /\ self.output_size.t = "str" /\ self.output_size.s \in Range(api_outputsize)
  /\ self.datatype.t = "str" /\ self.datatype.s \in Range(api_datatype)
  /\ self.output.t = "str" /\ self.output.s \in Range(output_type)
  /\ self.export.t = "bool"
  /\ self.clean.t = "bool"
  /\ self.proxy.t = "dict"
  /\ self.export_path.t = "path"

\* C8: after construction and after any assignments to the validated
\* properties, every field holds a valid value: an invalid value makes the
\* field take its fallback, and never raises or leaves the field unset.
C8_ConfigAlwaysValid ==
  /\ proc # "failed"
  /\ proc = "running" => ValidConfig
  /\ call.state # "raised"

\* C9: without an explicit key and without AV_API_KEY, setting the key
\* terminates the process, so that no request is ever sent with an absent
\* key.
C9_NoRequestWithoutKey ==
  \A i \in 1..Len(sent) : sent[i].params["apikey"] # PyNone

\* C10: whenever the exporter writes a file under the configured export
\* directory, the directory exists.
C10_ExportDirExists ==
  \A i \in 1..Len(sent) :
    (sent[i].saved # NoSave /\ sent[i].saved.dir # <<>>) => sent[i].saved.existed

(***************************************************************************)
(* C11: the options with an acceptance condition.                          *)
(***************************************************************************)
\* the magnitude, in tenths, of a value given for an option
Magnitude(v) ==
  IF IsStr(v) THEN FloatTable[v.s]
  ELSE IF tenths(v) < 0 THEN -tenths(v) ELSE tenths(v)

\* the value given for an option can be coerced: a finite number, for a limit
\* also the infinite float and a string that reads as a number
Coercible(o, v) ==
  \/ IsNumber(v) /\ v # Inf
  \/ o \in limits \cup {"acceleration", "maximum"}
       /\ (v = Inf \/ (IsStr(v) /\ v.s \in DOMAIN FloatTable))
  \/ o \in {"nbdevup", "nbdevdn"} /\ v = Inf
  \/ o \notin Range(validated)

\* the coerced value of the option satisfies its acceptance condition
Accepted(o, v) ==
  /\ Coercible(o, v)
  /\ v # Inf
  /\ o \in matypes => Magnitude(v) \div 10 \in 0..8
  /\ o \in limits => (Magnitude(v) > 0 /\ Magnitude(v) < 10)

\* C11: data() inserts an option of the matype family only if the magnitude of
\* the value given, cut to an integer, is a moving-average-type code, and
\* fastlimit or slowlimit only if the magnitude of the value given lies strictly
\* between 0 and 1; an option of the function whose coerced value is accepted
\* is inserted with that value; and a call whose values can all be coerced
\* sends its request, the rejected options being absent from the parameters.
C11_OptionInsertedIffAccepted ==
  /\ \A i \in 1..Len(sent) :
       LET K == sent[i].kwargs
           P == sent[i].params
           optional == Range(parameters_of(P["function"].s, "optional"))
       IN \A o \in matypes \cup limits :
            /\ o \in DOMAIN P =>
                 /\ o \in DOMAIN K
                 /\ Accepted(o, K[o])
                 /\ o \in matypes => P[o] = PyInt(Magnitude(K[o]) \div 10)
                 /\ o \in limits => P[o] = PyFloat(Magnitude(K[o]))
            /\ (o \in DOMAIN K /\ o \in optional /\ Accepted(o, K[o]))
                 => o \in DOMAIN P
  /\ (/\ call.op = "data"
      /\ call.state \in {"returned", "raised"}
      /\ \A o \in DOMAIN call.kwargs : Coercible(o, call.kwargs[o]))
     => call.nreq >= 1

\* a call of MAMA with fastlimit = 1.5 and slowlimit = 0.5 sent its request
\* with slowlimit and without fastlimit
C11_Witness ==
  \E i \in 1..Len(sent) :
    /\ sent[i].params["function"] = PyStr("MAMA")
    /\ DOMAIN sent[i].kwargs = {"fastlimit", "slowlimit"}
    /\ sent[i].kwargs["fastlimit"] = PyFloat(15)
    /\ sent[i].kwargs["slowlimit"] = PyFloat(5)
    /\ "fastlimit" \notin DOMAIN sent[i].params
    /\ sent[i].params["slowlimit"] = PyFloat(5)
    /\ call.state = "returned"

(***************************************************************************)
(* C12, C13: the normalizer.                                               *)
(***************************************************************************)
\* the entries of a payload that are no metadata
NonMeta(r) == SelectSeq(r, LAMBDA e : e.key # "Meta Data")

\* C12: for a response whose one key that is no metadata maps N timestamps,
\* newest first, the table has N rows, row i being timestamp N + 1 - i of the
\* response, and the rows ascend strictly.
C12_RowsAscending ==
  (/\ call.op = "_to_dataframe"
   /\ Len(NonMeta(call.response)) = 1
   /\ NonMeta(call.response)[1].map
   /\ NonMeta(call.response)[1].key # "")
  => LET ts == NonMeta(call.response)[1].ts
         rows == call.result.rows
     IN /\ call.state = "returned"
        /\ call.result.kind = "table"
        /\ Len(rows) = Len(ts)
        /\ \A i \in 1..Len(rows) : rows[i] = ts[Len(ts) + 1 - i]
        /\ \A i \in 1..(Len(rows) - 1) : rows[i] < rows[i + 1]

\* a response of three timestamps was made a table
C12_Witness ==
  /\ call.op = "_to_dataframe"
  /\ call.function = PyStr("TIME_SERIES_DAILY")
  /\ Len(call.response) = 2
  /\ call.response[1].key = "Meta Data"
  /\ call.response[2].ts = <<3, 2, 1>>
  /\ call.result.rows = <<1, 2, 3>>

\* C13 as claimed: the table is made of the value of the first key of the
\* payload that is no metadata; without such a key the normalizer raises.
C13_FirstNonMetaKey ==
  call.op = "_to_dataframe" =>
    IF NonMeta(call.response) = <<>>
    THEN call.state = "raised"
    ELSE call.state = "returned" =>
           /\ call.key = PyStr(NonMeta(call.response)[1].key)
           /\ call.result.rows = Reverse(NonMeta(call.response)[1].ts)

\* C13 as amended: the table is made of the value of the last key of the
\* payload that is no metadata; without such a key the normalizer raises
\* IndexError, and when that key is the empty string it raises KeyError.
C13_LastNonMetaKey ==
  call.op = "_to_dataframe" =>
    LET keys == NonMeta(call.response)
    IN IF keys = <<>>
       THEN call.state = "raised" /\ call.exc = "IndexError"
       ELSE IF keys[Len(keys)].key = ""
       THEN call.state = "raised" /\ call.exc = "KeyError"
       ELSE /\ call.key = PyStr(keys[Len(keys)].key)
            /\ call.state = "returned" =>
                 call.result.rows = Reverse(keys[Len(keys)].ts)

\* a payload with two keys that are no metadata was made a table of the second
C13_Witness ==
  /\ call.op = "_to_dataframe"
  /\ call.state = "returned"
  /\ Len(NonMeta(call.response)) = 2
  /\ NonMeta(call.response)[1].key = "Time Series (Daily)"
  /\ NonMeta(call.response)[1].ts = <<2, 1>>
  /\ call.key = PyStr("Time Series (Weekly)")
  /\ call.result.rows = <<6, 7>>

(***************************************************************************)
(* C14: last(n).                                                           *)
(***************************************************************************)
\* C14: for a history of length L and 1 <= n <= L, last(n) returns the list of
\* the n most recent records in the order of the history, and for n <= 0 the
\* empty list.
C14_LastReturnsLastN ==
  (call.op = "last" /\ call.n <= Len(history)) =>
    /\ call.state = "returned"
    /\ call.value.kind = "list"
    /\ call.value.v =
         IF call.n <= 0 THEN <<>>
         ELSE SubSeq(history, Len(history) - call.n + 1, Len(history))

(***************************************************************************)
(* C15: the exporter and the call history.                                 *)
(***************************************************************************)
\* C15: whenever _save_df ran for a request, the request was recorded before,
\* the parameters _save_df took from last() are the parameters of that very
\* request, and the name of the file begins with the symbol of that request.
C15_ExportUsesCurrentCall ==
  /\ HistoryIsRecorded
  /\ \A i \in 1..Len(sent) :
       sent[i].saved # NoSave =>
         /\ sent[i].recorded
         /\ Len(history) >= 1
         /\ sent[i].saved.parameters = sent[i].params
         /\ sent[i].saved.name # <<>> =>
              sent[i].saved.name[1] = sent[i].params["symbol"]

\* the tables of two requests of one call of data() were exported, each under
\* the symbol of its own request
C15_Witness ==
  /\ Len(sent) >= 2
  /\ sent[1].saved # NoSave /\ sent[1].saved.exc = ""
  /\ sent[2].saved # NoSave /\ sent[2].saved.exc = ""
  /\ sent[1].saved.name[1] = PyStr("MSFT")
  /\ sent[2].saved.name[1] = PyStr("AAPL")
  /\ sent[1].call = sent[2].call
====
